---- MODULE Spec2Model ----
(***************************************************************************)
(* ASGPi attendance kiosk: the tap-event session state machine             *)
(* (AttendanceApp.handle_tap over DatabaseManager) and the schedule        *)
(* controller (AttendanceApp.check_system_state with the auto sign-out     *)
(* sweep), over a store of members (asg_members) and sessions (asg_logs).  *)
(*                                                                         *)
(* Handlers run on the single Qt GUI thread and each is one step here; the  *)
(* reader loop runs on its own thread and hands cards over through the     *)
(* queued card_detected signal.  Every store call may raise; the set of    *)
(* call sites that raise during one handler is the handler's input F.      *)
(*                                                                         *)
(* Time is an instant in minutes: day * 1440 + hour * 60 + minute, day 0   *)
(* being a Thursday. A duration in hours is kept in sixtieths of an hour,   *)
(* so that total_seconds() / 3600.0 of a whole number of minutes is exact. *)
(***************************************************************************)
EXTENDS Integers, Sequences, FiniteSets, TLC

VARIABLES
    day,                      \* calendar date of the wall clock (index of the day)
    slot,                     \* index into Slots: the wall clock's hour and minute
    dev_mode,                 \* config.DEV_MODE
    booted,                   \* AttendanceApp.__init__ has run its initial check_system_state
    is_sleeping,              \* AttendanceApp.is_sleeping
    is_processing_tap,        \* AttendanceApp.is_processing_tap (single-flight guard)
    reset_timers,             \* pending QTimer.singleShot(..., reset_circle_color)
    last_auto_signout_date,   \* AttendanceApp.last_auto_signout_date (NULL = None)
    auto_signout_attempted,   \* AttendanceApp.auto_signout_attempted
    continue_reading,         \* RFIDReader._continue_reading
    loops,                    \* reader threads inside start_reading's while loop
    queue,                    \* card_detected signals queued for the GUI thread
    members,                  \* asg_members: id -> [rfid_tag, inoffice]
    logs,                     \* asg_logs: sequence of sessions, a session's id is its index
    stale,                    \* history: loops told to stop by stop_reading, still running
    reg,                      \* the RegistrationWindow: open, current_rfid, override_checkbox
    sweeps,                   \* history: the auto_sign_out calls made on the current date
    ev,                       \* history: the last handler run, its inputs and its result
    log_text,                 \* AttendanceApp.log_text: "" when it holds no line
    alive,                    \* the process runs: no exception has ended it
    check_window              \* the CheckHoursWindow: "none", "open", or "returned"
                              \* (exec_() has returned, the rest of
                              \* show_check_hours_window is still to run)

vars == <<day, slot, dev_mode, booted, is_sleeping, is_processing_tap, reset_timers,
          last_auto_signout_date, auto_signout_attempted, continue_reading, loops,
          queue, members, logs, reg, stale, sweeps, ev, log_text, alive, check_window>>

-----------------------------------------------------------------------------
(* Bounds of the model *)

MaxDay == 2         \* the clock runs over days 0..MaxDay (Thursday, Friday, ...)
MaxQueue == 1       \* card_detected signals waiting for the GUI thread
MaxFails == 1       \* store calls that raise during one handler
MaxLogs == 3        \* rows of asg_logs
MaxLoops == 4       \* reader threads alive at once, over the openings of a dialog

-----------------------------------------------------------------------------
(* config.py *)

AUTO_SIGNOUT_HOUR == 22
SLEEP_TIME_HOUR == 22
SLEEP_TIME_MINUTE == 30
\* WAKE_TIME_HOUR and WAKE_TIME_MINUTE are read by no module.
WAKE_TIME_HOUR == 8
WAKE_TIME_MINUTE == 0
START_TIME_HOUR == 7
START_TIME_MINUTE == 0
\* DEFAULT_DURATION_HOURS = 1.0, in sixtieths of an hour
DEFAULT_DURATION_HOURS == 60
\* DEV_MODE: bool = False
DEV_MODE == FALSE

-----------------------------------------------------------------------------
(* Values *)

\* Python's None, for an optional member id, session id, instant or duration.
NULL == 0 - 1

MemberIds == {1, 2}
\* Cards in use: one per member, and one that is bound to nobody.
CardOf(m) == IF m = 1 THEN "card1" ELSE "card2"
Cards == {"card1", "card2", "123456"}
\* The position labels of asg_members; a label may be shared by members.
Positions == {"Treasurer", "Secretary"}
PositionOf(m) == IF m = 1 THEN "Treasurer" ELSE "Secretary"
\* A column of asg_members that holds no value (None in the row's dict).
NoValue == "<None>"
\* The name column: absent, empty, blank, or a name; a vacant seat has no name.
Names == {NoValue, "", " ", "Ann", "Bob"}
NameOf(m) == IF m = 1 THEN "Ann" ELSE "Bob"
\* str.strip() of a name.
strip(name) == IF name = " " THEN "" ELSE name

\* The instants of a day at which the clock is observed: before the start time,
\* the start time, inside the sign-in window, the auto sign-out minute, and the
\* sleep time.
Slots == << <<6, 0>>, <<7, 0>>, <<10, 0>>, <<22, 0>>, <<22, 30>> >>

current_hour == Slots[slot][1]
current_minute == Slots[slot][2]
current_date == day
\* datetime.weekday(): Monday is 0, Sunday is 6; day 0 is a Thursday.
current_weekday == (day + 3) % 7
\* The instant "now", in minutes.
Now == day * 1440 + current_hour * 60 + current_minute

\* Instant at which the sessions already open in the store were started.
OpenedAt == 5 * 60 + 30

FailSets(points) == {F \in SUBSET points : Cardinality(F) <= MaxFails}

-----------------------------------------------------------------------------
(* DatabaseManager: the store operations, as functions of the tables *)

\* response.data[0]: the first row of a result, rows coming in id order.
First(data) == CHOOSE x \in data : \A y \in data : x <= y

\* Variant: get_member_by_rfid without its .eq("rfid_tag", rfid_tag) filter.
get_member_unfiltered(ms, rfid_tag, raised) ==
    IF raised THEN NULL ELSE First(MemberIds)

\* Variant: get_member_by_rfid without its except clause: the exception of the
\* store call leaves the method (Raised stands for the propagating exception).
Raised == 0 - 2
get_member_by_rfid_unguarded(ms, rfid_tag, raised) ==
    LET data == {m \in MemberIds : ms[m].rfid_tag = rfid_tag}
    IN IF raised THEN Raised ELSE IF data = {} THEN NULL ELSE First(data)

\* get_member_by_rfid: response.data[0] of the rows whose rfid_tag matches, None
\* when there is none or the call raised.
get_member_by_rfid(ms, rfid_tag, raised) ==
    LET data == {m \in MemberIds : ms[m].rfid_tag = rfid_tag}
    IN IF raised \/ data = {} THEN NULL ELSE First(data)

\* Variant: get_active_session without its .is_("sign_out_time", "null") filter.
get_session_unfiltered(lg, member_id, raised) ==
    LET data == {i \in 1..Len(lg) : lg[i].user_id = member_id}
    IN IF raised \/ data = {} THEN NULL ELSE First(data)

\* get_active_session: response.data[0] of the member's rows with a null
\* sign_out_time, None when there is none or the call raised.
get_active_session(lg, member_id, raised) ==
    LET data == {i \in 1..Len(lg) :
                    lg[i].user_id = member_id /\ lg[i].sign_out_time = NULL}
    IN IF raised \/ data = {} THEN NULL ELSE First(data)

\* Variant: update_member that writes nothing.
update_member_ignored(ms, member_id, inoffice, raised) == ms

\* update_member: the row updated, or left alone when the call raised (the error is
\* swallowed and False returned, which no caller reads).
update_member(ms, member_id, inoffice, raised) ==
    IF raised THEN ms ELSE [ms EXCEPT ![member_id].inoffice = inoffice]

\* The for loop of get_positions over response.data (todo, in the store's order):
\* a member whose name is None or blank is skipped, so is one whose position is
\* None, and a position not seen before is appended.
RECURSIVE get_positions_loop(_, _, _)
get_positions_loop(todo, ms, positions) ==
    IF todo = {} THEN positions
    ELSE LET member == First(todo)
             name == ms[member].name
             position == ms[member].position
             seen_positions == {positions[i] : i \in 1..Len(positions)}
         IN get_positions_loop(
                todo \ {member}, ms,
                IF name = NoValue \/ strip(name) = "" THEN positions
                ELSE IF position = NoValue THEN positions
                ELSE IF position \in seen_positions THEN positions
                ELSE Append(positions, position))

\* get_positions: the list built by the loop, [] when the store call raised.
get_positions(ms, raised) ==
    IF raised THEN << >> ELSE get_positions_loop(MemberIds, ms, << >>)

\* What update_member returns: bool(response.data), False when the call raised.
update_member_ok(raised) == ~raised

\* Variant: timezone is still datetime.timezone (line 9), so timezone.utc resolves.
TimezoneIsDatetimeTimezone == TRUE

\* database_manager.py line 15 rebinds the name timezone (line 9, datetime.timezone)
\* to the function pytz.timezone, which has no attribute utc: evaluating
\* timezone.utc (lines 177, 218, 304) raises AttributeError inside the method's try.
TimezoneHasUtc == FALSE


\* A call site of a store call in one handler run; the handler's input F is the set
\* of call sites at which the call raises in this run.
Site(name, m) == [site |-> name, m |-> m]

\* Variant: sign_in whose cutoff test is "current_time.hour > AUTO_SIGNOUT_HOUR".
sign_in_cutoff_exclusive(ms, lg, rfid_tag, F) ==
    LET same == [result |-> "none", members |-> ms, logs |-> lg,
                 sites |-> {Site("si_get_member", 0)}]
        member == get_member_by_rfid(ms, rfid_tag, Site("si_get_member", 0) \in F)
    IN IF ~dev_mode /\ (current_hour < START_TIME_HOUR
                        \/ (current_hour = START_TIME_HOUR
                            /\ current_minute < START_TIME_MINUTE))
       THEN [same EXCEPT !.result = "before_hours", !.sites = {}]
       ELSE IF ~dev_mode /\ current_hour > AUTO_SIGNOUT_HOUR
       THEN [same EXCEPT !.result = "after_hours", !.sites = {}]
       ELSE same

\* sign_in: the time window (skipped in DEV mode), the member, the UTC timestamp,
\* the member's inoffice flag, then the new asg_logs row.  result is "before_hours"
\* or "after_hours" (the error dicts), "session" (the inserted row) or "none" (None);
\* sites are the store calls made.
sign_in(ms, lg, rfid_tag, F) ==
    LET same == [result |-> "none", members |-> ms, logs |-> lg,
                 sites |-> {Site("si_get_member", 0)}]
        all == {Site("si_get_member", 0), Site("si_update_member", 0),
                Site("si_insert", 0)}
        member == get_member_by_rfid(ms, rfid_tag, Site("si_get_member", 0) \in F)
        ms2 == update_member(ms, member, TRUE, Site("si_update_member", 0) \in F)
        row == [user_id |-> member, sign_in_time |-> Now, sign_out_time |-> NULL,
                duration |-> NULL, message |-> "Signed In"]
    IN IF ~dev_mode /\ (current_hour < START_TIME_HOUR
                        \/ (current_hour = START_TIME_HOUR
                            /\ current_minute < START_TIME_MINUTE))
       THEN [same EXCEPT !.result = "before_hours", !.sites = {}]
       ELSE IF ~dev_mode /\ current_hour >= AUTO_SIGNOUT_HOUR
       THEN [same EXCEPT !.result = "after_hours", !.sites = {}]
       ELSE IF member = NULL THEN same
       ELSE IF ~TimezoneHasUtc THEN same
       ELSE IF Site("si_insert", 0) \in F
       THEN [result |-> "none", members |-> ms2, logs |-> lg, sites |-> all]
       ELSE [result |-> "session", members |-> ms2, logs |-> Append(lg, row),
             sites |-> all]

\* sign_out: the member, the active session, the duration from its sign_in_time to
\* the UTC timestamp, the asg_logs row closed, then the member's inoffice flag.
\* duration is the returned duration, NULL for None; sites are the store calls made.
sign_out(ms, lg, rfid_tag, F) ==
    LET lookups == {Site("so_get_member", 0), Site("so_get_active", 0)}
        same == [duration |-> NULL, members |-> ms, logs |-> lg, sites |-> lookups]
        member == get_member_by_rfid(ms, rfid_tag, Site("so_get_member", 0) \in F)
        active_session ==
            get_active_session(lg, member, Site("so_get_active", 0) \in F)
        duration_hours == Now - lg[active_session].sign_in_time
        lg2 == [lg EXCEPT ![active_session] =
                   [@ EXCEPT !.sign_out_time = Now, !.duration = duration_hours,
                             !.message = "Signed Out"]]
    IN IF member = NULL THEN [same EXCEPT !.sites = {Site("so_get_member", 0)}]
       ELSE IF active_session = NULL THEN same
       ELSE IF ~TimezoneHasUtc THEN same
       ELSE IF Site("so_update", 0) \in F
       THEN [same EXCEPT !.sites = lookups \cup {Site("so_update", 0)}]
       ELSE [duration |-> duration_hours,
             members |-> update_member(ms, member, FALSE,
                                       Site("so_update_member", 0) \in F),
             logs |-> lg2,
             sites |-> lookups \cup {Site("so_update", 0),
                                     Site("so_update_member", 0)}]

\* Variant: auto_sign_out writes config.DEFAULT_DURATION_HOURS.
AutoSignOutConfigDuration == DEFAULT_DURATION_HOURS

\* The duration auto_sign_out writes: the literal 0.0 of line 267.
AutoSignOutDuration == 0

\* The for loop of auto_sign_out over response.data (todo), with the tables,
\* signed_out_members and the store calls made as they stand.  An exception of the
\* asg_logs update leaves the loop for the except clause, which returns an error
\* and no members.
RECURSIVE auto_sign_out_loop(_, _, _, _, _, _)
auto_sign_out_loop(todo, ms, lg, signed_out_members, sites, F) ==
    IF todo = {}
    THEN [error |-> FALSE, members |-> signed_out_members, ms |-> ms, lg |-> lg,
          sites |-> sites]
    ELSE LET member == First(todo)
             rest == todo \ {member}
             active_session ==
                 get_active_session(lg, member, Site("sw_get_active", member) \in F)
             lg2 == [lg EXCEPT ![active_session] =
                        [@ EXCEPT !.sign_out_time = Now,
                                  !.duration = AutoSignOutDuration,
                                  !.message = "Automatically signed out."]]
             ms2 == update_member(ms, member, FALSE,
                                  Site("sw_update_member", member) \in F)
             looked == sites \cup {Site("sw_get_active", member)}
             updated == looked \cup {Site("sw_update", member)}
         IN IF active_session = NULL
            THEN auto_sign_out_loop(rest, ms, lg, signed_out_members, looked, F)
            ELSE IF Site("sw_update", member) \in F
            THEN [error |-> TRUE, members |-> << >>, ms |-> ms, lg |-> lg,
                  sites |-> updated]
            ELSE auto_sign_out_loop(rest, ms2, lg2,
                                    Append(signed_out_members, member),
                                    updated \cup {Site("sw_update_member", member)},
                                    F)

\* Variant: the loop returns after the first member of response.data.
auto_sign_out_first_only(ms, lg, F) ==
    LET data == {m \in MemberIds : ms[m].inoffice}
    IN IF Site("sw_select", 0) \in F
       THEN [error |-> TRUE, members |-> << >>, ms |-> ms, lg |-> lg,
             sites |-> {Site("sw_select", 0)}]
       ELSE auto_sign_out_loop(IF data = {} THEN {} ELSE {First(data)},
                               ms, lg, << >>, {Site("sw_select", 0)}, F)

\* auto_sign_out: the members with inoffice set, then the loop over them.
auto_sign_out(ms, lg, F) ==
    LET data == {m \in MemberIds : ms[m].inoffice}
    IN IF Site("sw_select", 0) \in F
       THEN [error |-> TRUE, members |-> << >>, ms |-> ms, lg |-> lg,
             sites |-> {Site("sw_select", 0)}]
       ELSE auto_sign_out_loop(data, ms, lg, << >>, {Site("sw_select", 0)}, F)

\* upload_system_logs: what it returns.  Building log_data evaluates timezone.utc,
\* which raises before the insert (see TimezoneHasUtc); the except clause returns
\* False, as it does when the insert raises.
upload_system_logs(raised) ==
    IF ~TimezoneHasUtc \/ raised THEN FALSE ELSE TRUE

TapSites ==
    {Site(n, 0) : n \in {"tap_get_member", "tap_get_active", "si_get_member",
                         "si_update_member", "si_insert", "so_get_member",
                         "so_get_active", "so_update", "so_update_member"}}

SweepSites ==
    {Site("sw_select", 0), Site("sw_upload", 0)}
    \cup {Site(n, m) : n \in {"sw_get_active", "sw_update", "sw_update_member"},
                       m \in MemberIds}


-----------------------------------------------------------------------------
(* RFIDReader: the flag *)

\* Variant: stop_reading that flips the flag.
stop_reading_toggle(flag) == ~flag

\* stop_reading: self._continue_reading = False, whatever it was.
stop_reading(flag) == FALSE

-----------------------------------------------------------------------------
(* AttendanceApp *)

\* The record of a handler run: the handler, its inputs (card, and fails: the store
\* calls it made that raised), and what it did.
\*   outcome  the message handle_tap leaves on the display, "ignored" when the
\*            guard dropped the tap, "asleep" when the sleeping check did
\*   signin   what sign_in returned ("" when it was not called)
\*   signout  whether sign_out was called, duration what it returned
\*   calls    the number of store calls the handler made
\*   swept    whether check_system_state called auto_sign_out, error and
\*            signed_out what auto_sign_out returned
\*   position the position selected when register_card ran, member the member
\*            record it read for it, reply the answer to its overwrite question
\*            ("" when it was not asked)
\*   positions what get_positions returned, returned the member or session that a
\*            lookup called on its own returned, notified the notification whose
\*            sender thread handle_tap started ("" for none), upload what
\*            upload_system_logs returned ("" when not called), cleared whether
\*            log_text.clear() was called, attempted the value of
\*            auto_signout_attempted when check_system_state started
EvNone ==
    [op |-> "none", card |-> "", fails |-> {}, outcome |-> "", signin |-> "",
     signout |-> FALSE, duration |-> NULL, calls |-> 0, swept |-> FALSE,
     error |-> FALSE, signed_out |-> << >>, position |-> "", member |-> NULL,
     reply |-> "", positions |-> << >>, returned |-> NULL, notified |-> "",
     upload |-> "", cleared |-> FALSE, attempted |-> FALSE]

\* config.py defines no DISCORD_WEBHOOK_ENABLED: reading config.DISCORD_WEBHOOK_ENABLED
\* (ui.py lines 501, 525) raises AttributeError inside handle_tap's try.
DiscordWebhookEnabledDefined == FALSE

\* The log display after append_log: it holds a line.
Lines == "lines"
append_log(text) == Lines

\* Variant: log_text.clear() whatever upload_system_logs returned.
ClearedAnyway(text, success) == ""

\* The log display after "if upload_system_logs(logs): self.log_text.clear()".
ClearedAfterUpload(text, success) == IF success THEN "" ELSE text

\* The GUI thread is free to run a slot: it is not between the return of a
\* dialog's exec_() and the end of the show_..._window call that opened it.
GuiThreadFree ==
    /\ ~reg.returned
    /\ check_window # "returned"

\* ui.py binds Thread (line 9, from threading import Thread) but not the name
\* threading, which lines 502 and 526 use: threading.Thread raises NameError.
ThreadingIsBound == FALSE

\* The notification that handle_tap hands to a sender thread after a recorded
\* sign-in or sign-out (lines 500-506, 524-530): none when reading the flag or
\* naming the thread class raises.
Dispatched(kind) ==
    IF DiscordWebhookEnabledDefined /\ ThreadingIsBound THEN kind ELSE ""

\* Variant: handle_tap without its first check.
TapNeverIgnored == FALSE

\* Whether handle_tap returns at its first check, the single-flight guard.
TapIgnored == is_processing_tap

\* Variant: handle_tap without its "if self.is_sleeping: return".
TapNeverAsleep == FALSE

\* Whether handle_tap, past the guard, returns at its sleeping check.
TapAsleep == is_sleeping

\* handle_tap past the guard and the sleeping check, for a non-empty rfid_tag:
\* the member, the active session, then sign_in or sign_out.  The message shown
\* last is the outcome; every path ends with a singleShot timer for
\* reset_circle_color.
ProcessTap(rfid_tag, F) ==
    LET member == get_member_by_rfid(members, rfid_tag, Site("tap_get_member", 0) \in F)
        active_session ==
            get_active_session(logs, member, Site("tap_get_active", 0) \in F)
        log_entry == sign_in(members, logs, rfid_tag, F)
        out == sign_out(members, logs, rfid_tag, F)
        lookups == {Site("tap_get_member", 0), Site("tap_get_active", 0)}
        \* F names only calls that are made: a call never made raises nothing.
        tap(sites) == IF F \subseteq sites
                      THEN {[EvNone EXCEPT !.op = "tap", !.card = rfid_tag,
                                           !.fails = F,
                                           !.calls = Cardinality(sites)]}
                      ELSE {}
    IN /\ reset_timers' = reset_timers + 1
       /\ IF member = NULL
          THEN /\ \E t \in tap({Site("tap_get_member", 0)}) :
                     ev' = [t EXCEPT !.outcome = "unknown_card"]
               /\ UNCHANGED <<members, logs>>
          ELSE IF active_session = NULL
          THEN /\ \E t \in tap(lookups \cup log_entry.sites) :
                     ev' = [t EXCEPT
                              !.signin = log_entry.result,
                              !.notified = IF log_entry.result = "session"
                                           THEN Dispatched("sign_in") ELSE "",
                              !.outcome =
                                  CASE log_entry.result = "after_hours" -> "after_hours"
                                    [] log_entry.result = "before_hours" -> "before_hours"
                                    [] log_entry.result = "none" -> "error_sign_in"
                                    [] OTHER -> IF DiscordWebhookEnabledDefined
                                                THEN "signed_in"
                                                ELSE "error_processing"]
               /\ members' = log_entry.members
               /\ logs' = log_entry.logs
          ELSE /\ \E t \in tap(lookups \cup out.sites) :
                     ev' = [t EXCEPT
                              !.signout = TRUE,
                              !.duration = out.duration,
                              !.notified = IF out.duration = NULL THEN ""
                                           ELSE Dispatched("sign_out"),
                              !.outcome =
                                  IF out.duration = NULL THEN "error_sign_out"
                                  ELSE IF DiscordWebhookEnabledDefined
                                  THEN "signed_out"
                                  ELSE "error_processing"]
               /\ members' = out.members
               /\ logs' = out.logs

\* handle_tap, run by the GUI thread for the queued card_detected signal.  (The
\* bound on the rows of asg_logs keeps the table finite.)
handle_tap ==
    /\ alive
    /\ GuiThreadFree
    /\ booted
    /\ queue # << >>
    /\ Len(logs) < MaxLogs
    /\ queue' = Tail(queue)
    /\ LET rfid_tag == Head(queue)
           tap == [EvNone EXCEPT !.op = "tap", !.card = rfid_tag]
       IN IF TapIgnored
          THEN /\ ev' = [tap EXCEPT !.outcome = "ignored"]
               /\ UNCHANGED <<is_processing_tap, reset_timers, members, logs>>
          ELSE /\ is_processing_tap' = TRUE
               /\ IF TapAsleep
                  THEN /\ ev' = [tap EXCEPT !.outcome = "asleep"]
                       /\ UNCHANGED <<reset_timers, members, logs>>
                  ELSE IF rfid_tag = ""
                  THEN /\ ev' = [tap EXCEPT !.outcome = "invalid"]
                       /\ reset_timers' = reset_timers + 1
                       /\ UNCHANGED <<members, logs>>
                  ELSE \E F \in FailSets(TapSites) : ProcessTap(rfid_tag, F)
    /\ UNCHANGED <<day, slot, dev_mode, booted, is_sleeping, last_auto_signout_date,
                   auto_signout_attempted, continue_reading, loops, reg, sweeps, stale>>
    /\ log_text' = IF ev'.outcome \in {"signed_in", "signed_out", "error_processing"}
                   THEN append_log(log_text) ELSE log_text
    /\ UNCHANGED <<alive, check_window>>

\* reset_circle_color, run when a singleShot timer of handle_tap expires.
reset_circle_color ==
    /\ alive
    /\ GuiThreadFree
    /\ booted
    /\ reset_timers > 0
    /\ reset_timers' = reset_timers - 1
    /\ is_processing_tap' = FALSE
    /\ ev' = [EvNone EXCEPT !.op = "reset"]
    /\ UNCHANGED <<day, slot, dev_mode, booted, is_sleeping, last_auto_signout_date,
                   auto_signout_attempted, continue_reading, loops, queue, members,
                   logs, reg, sweeps, stale,
                   log_text, alive, check_window>>


\* Variant: the sleep decision without its DEV_MODE test.
should_sleep_in_dev_mode ==
    \/ current_weekday \in {5, 6}
    \/ current_hour < START_TIME_HOUR
    \/ (current_hour = START_TIME_HOUR /\ current_minute < START_TIME_MINUTE)
    \/ (current_hour = SLEEP_TIME_HOUR /\ current_minute >= SLEEP_TIME_MINUTE)
    \/ current_hour > SLEEP_TIME_HOUR

\* Variant: the sleep decision whose weekend is Sunday alone.
should_sleep_sunday_only ==
    /\ ~dev_mode
    /\ \/ current_weekday = 6
       \/ current_hour < START_TIME_HOUR
       \/ (current_hour = START_TIME_HOUR /\ current_minute < START_TIME_MINUTE)
       \/ (current_hour = SLEEP_TIME_HOUR /\ current_minute >= SLEEP_TIME_MINUTE)
       \/ current_hour > SLEEP_TIME_HOUR

\* Variant: the sleep decision that sleeps from the sleep hour, whatever the minute.
should_sleep_from_sleep_hour ==
    /\ ~dev_mode
    /\ \/ current_weekday \in {5, 6}
       \/ current_hour < START_TIME_HOUR
       \/ (current_hour = START_TIME_HOUR /\ current_minute < START_TIME_MINUTE)
       \/ current_hour >= SLEEP_TIME_HOUR

\* The sleep decision of check_system_state: never in DEV mode, always on Saturday
\* and Sunday, on other days before the start time and from the sleep time on.
should_sleep ==
    /\ ~dev_mode
    /\ \/ current_weekday \in {5, 6}
       \/ current_hour < START_TIME_HOUR
       \/ (current_hour = START_TIME_HOUR /\ current_minute < START_TIME_MINUTE)
       \/ (current_hour = SLEEP_TIME_HOUR /\ current_minute >= SLEEP_TIME_MINUTE)
       \/ current_hour > SLEEP_TIME_HOUR

\* Variant: check_system_state without the reset of lines 559-562.
AttemptedNeverReset == auto_signout_attempted

\* auto_signout_attempted after the reset at the top of check_system_state.
AttemptedAfterReset ==
    IF current_minute = 0 /\ auto_signout_attempted
    THEN FALSE
    ELSE auto_signout_attempted

\* Variant: the auto sign-out condition without its "not self.is_sleeping".
AutoSignOutDueAsleepToo ==
    /\ current_hour = AUTO_SIGNOUT_HOUR
    /\ current_minute = 0
    /\ ~AttemptedAfterReset
    /\ (last_auto_signout_date = NULL \/ last_auto_signout_date # current_date)

\* The condition of the auto sign-out, evaluated after the sleep state was applied
\* (is_sleeping = should_sleep by then) and the attempt flag was reset.
AutoSignOutDue ==
    /\ ~should_sleep
    /\ current_hour = AUTO_SIGNOUT_HOUR
    /\ current_minute = 0
    /\ ~AttemptedAfterReset
    /\ (last_auto_signout_date = NULL \/ last_auto_signout_date # current_date)

\* Variant: the date is recorded only when auto_sign_out returned no error.
DateAfterSuccessfulSweep(result) ==
    IF result.error THEN last_auto_signout_date ELSE current_date

\* last_auto_signout_date after auto_sign_out returned: every dict it returns has
\* keys, so "if result:" holds and the date is recorded, error or not.
DateAfterSweep(result) == current_date

\* check_system_state: run once by __init__ and then by state_timer.
check_system_state ==
    /\ alive
    /\ GuiThreadFree
    /\ booted' = TRUE
    /\ is_sleeping' = should_sleep
    /\ IF should_sleep /\ ~is_sleeping
       THEN \* sleep_system: rfid_reader.stop_reading(), join with a timeout
            /\ continue_reading' = stop_reading(continue_reading)
            /\ stale' = loops
            /\ UNCHANGED loops
       ELSE IF ~should_sleep /\ is_sleeping
       THEN \* wake_system: start_rfid_reader()
            /\ continue_reading' = TRUE
            /\ loops' = loops + 1
            /\ UNCHANGED stale
       ELSE UNCHANGED <<continue_reading, loops, stale>>
    /\ IF AutoSignOutDue
       THEN \E F \in FailSets(SweepSites) :
              LET result == auto_sign_out(members, logs, F)
                  \* the attempt and its result are appended before the upload
                  text == append_log(append_log(log_text))
                  success == upload_system_logs(Site("sw_upload", 0) \in F)
                  uploads == IF TimezoneHasUtc THEN {Site("sw_upload", 0)} ELSE {}
              IN \* F names only calls that are made
                 /\ F \subseteq result.sites \cup uploads
                 \* on success the display is cleared and a line appended; on
                 \* failure append_log(..., error=True) raises TypeError (append_log
                 \* has no such parameter) and nothing is appended
                 /\ log_text' = IF success
                                THEN append_log(ClearedAfterUpload(text, success))
                                ELSE ClearedAfterUpload(text, success)
                 \* the TypeError leaves check_system_state: out of __init__ and
                 \* main() when this is the initial check, else into the Qt event
                 \* loop, which ends the process or prints the traceback and goes on
                 /\ alive' \in IF success THEN {TRUE}
                               ELSE IF booted THEN BOOLEAN ELSE {FALSE}
                 /\ auto_signout_attempted' = TRUE
                 /\ members' = result.ms
                 /\ logs' = result.lg
                 /\ last_auto_signout_date' = DateAfterSweep(result)
                 /\ sweeps' = sweeps + 1
                 /\ ev' = [EvNone EXCEPT !.op = "check", !.swept = TRUE,
                                         !.attempted = auto_signout_attempted,
                                         !.fails = F,
                                         !.calls = Cardinality(result.sites),
                                         !.error = result.error,
                                         !.signed_out = result.members,
                                         !.upload = IF success THEN "True"
                                                    ELSE "False",
                                         !.cleared =
                                             ClearedAfterUpload(text, success) = ""]
       ELSE /\ auto_signout_attempted' = AttemptedAfterReset
            /\ ev' = [EvNone EXCEPT !.op = "check",
                                    !.attempted = auto_signout_attempted]
            \* lines 562, 573, 598, 656, 669
            /\ log_text' = IF \/ (current_minute = 0 /\ auto_signout_attempted)
                              \/ is_sleeping # should_sleep
                              \/ (~dev_mode /\ current_weekday \in {5, 6}
                                  /\ ~is_sleeping)
                           THEN append_log(log_text) ELSE log_text
            /\ UNCHANGED <<members, logs, last_auto_signout_date, sweeps, alive>>
    /\ UNCHANGED <<day, slot, dev_mode, is_processing_tap, reset_timers, queue, reg,
                   check_window>>

\* The widgets of the main window can be used: central_widget is visible (hidden
\* by sleep_system, line 654) and no modal dialog is inside exec_().
MainWindowInUse ==
    /\ GuiThreadFree
    /\ ~is_sleeping
    /\ ~reg.open /\ ~reg.returned
    /\ check_window = "none"

\* upload_logs, the slot of the upload button of the main window.
upload_logs ==
    /\ alive
    /\ booted
    /\ MainWindowInUse
    /\ IF log_text = ""
       THEN /\ ev' = [EvNone EXCEPT !.op = "upload_logs", !.outcome = "no_logs"]
            /\ UNCHANGED log_text
       ELSE \E F \in FailSets({Site("upload_insert", 0)}) :
              LET success == upload_system_logs(Site("upload_insert", 0) \in F)
              IN /\ TimezoneHasUtc \/ F = {}
                 /\ log_text' = IF success
                                THEN append_log(ClearedAfterUpload(log_text, success))
                                ELSE ClearedAfterUpload(log_text, success)
                 /\ ev' = [EvNone EXCEPT
                             !.op = "upload_logs", !.fails = F,
                             !.calls = IF TimezoneHasUtc THEN 1 ELSE 0,
                             !.upload = IF success THEN "True" ELSE "False",
                             !.cleared = ClearedAfterUpload(log_text, success) = "",
                             !.outcome = IF success THEN "uploaded" ELSE "failed"]
    /\ UNCHANGED <<day, slot, dev_mode, booted, is_sleeping, is_processing_tap,
                   reset_timers, last_auto_signout_date, auto_signout_attempted,
                   continue_reading, loops, queue, members, logs, reg, sweeps, stale,
                   alive, check_window>>

-----------------------------------------------------------------------------
(* RFIDReader: the loop of start_reading on the reader thread *)

\* One turn of the loop that reads a card: callback(str(card_id)) emits
\* card_detected, which Qt queues for the GUI thread.
reader_poll ==
    /\ alive
    /\ loops > 0
    /\ continue_reading
    /\ Len(queue) < MaxQueue
    /\ \E card_id \in Cards : queue' = Append(queue, card_id)
    /\ ev' = EvNone
    /\ UNCHANGED <<day, slot, dev_mode, booted, is_sleeping, is_processing_tap,
                   reset_timers, last_auto_signout_date, auto_signout_attempted,
                   continue_reading, loops, members, logs, reg, sweeps, stale,
                   log_text, alive, check_window>>

\* The loop finds _continue_reading cleared and leaves through cleanup().
reader_exit ==
    /\ alive
    /\ loops > 0
    /\ ~continue_reading
    /\ loops' = loops - 1
    /\ stale' = IF stale > 0 THEN stale - 1 ELSE 0
    /\ ev' = EvNone
    /\ UNCHANGED <<day, slot, dev_mode, booted, is_sleeping, is_processing_tap,
                   reset_timers, last_auto_signout_date, auto_signout_attempted,
                   continue_reading, queue, members, logs, reg, sweeps,
                   log_text, alive, check_window>>

-----------------------------------------------------------------------------
(* RegistrationWindow: the handlers of the dialog, while it is on screen *)

\* No dialog; and the dialog as __init__ and setup_ui leave it: no card detected,
\* the override checkbox unchecked.  returned: exec_() has returned and the rest
\* of show_registration_window is still to run.
RegNone == [open |-> FALSE, current_rfid |-> "", override |-> FALSE,
            returned |-> FALSE]
RegShown == [open |-> TRUE, current_rfid |-> "", override |-> FALSE,
             returned |-> FALSE]

\* show_registration_window up to exec_(): stop_reading() and join(timeout=1.0),
\* within which any of the running loops may have left; RegistrationWindow.__init__
\* (get_positions taken to succeed) starts a reader thread, and show(), through
\* showEvent, reinitializes the reader and starts another.  start_reading sets
\* _continue_reading again.  (The bound keeps the number of threads finite.)
show_registration_window ==
    /\ alive
    /\ booted
    /\ MainWindowInUse
    /\ \E left \in 0..loops :
          /\ left + 3 <= MaxLoops
          /\ loops' = left + 2
          /\ stale' = left
    /\ continue_reading' = TRUE
    /\ reg' = RegShown
    /\ ev' = [EvNone EXCEPT !.op = "show_registration"]
    /\ UNCHANGED <<day, slot, dev_mode, booted, is_sleeping, is_processing_tap,
                   reset_timers, last_auto_signout_date, auto_signout_attempted,
                   queue, members, logs, sweeps,
                   log_text, alive, check_window>>

\* show_registration_window after exec_() returned: reinitialize() and
\* start_rfid_reader().
registration_returned ==
    /\ alive
    /\ reg.returned
    /\ reg' = RegNone
    /\ continue_reading' = TRUE
    /\ loops' = loops + 1
    /\ ev' = [EvNone EXCEPT !.op = "registration_returned"]
    /\ UNCHANGED <<day, slot, dev_mode, booted, is_sleeping, is_processing_tap,
                   reset_timers, last_auto_signout_date, auto_signout_attempted,
                   queue, members, logs, sweeps, stale>>
    \* append_log when exec_() returned Accepted (the result is not kept in reg)
    /\ \E accepted \in BOOLEAN :
          log_text' = IF accepted THEN append_log(log_text) ELSE log_text
    /\ UNCHANGED <<alive, check_window>>

RegSites == {Site(n, 0) : n \in {"reg_get_member", "reg_select", "reg_update_member"}}

\* The user checks or unchecks override_checkbox.
toggle_override ==
    /\ alive
    /\ reg.open
    /\ reg' = [reg EXCEPT !.override = ~reg.override]
    /\ ev' = [EvNone EXCEPT !.op = "toggle"]
    /\ UNCHANGED <<day, slot, dev_mode, booted, is_sleeping, is_processing_tap,
                   reset_timers, last_auto_signout_date, auto_signout_attempted,
                   continue_reading, loops, queue, members, logs, sweeps, stale,
                   log_text, alive, check_window>>

\* handle_card_tap, run for a card_detected signal of the dialog: a card that
\* get_member_by_rfid finds registered is refused unless the checkbox is checked,
\* any other card becomes current_rfid.
handle_card_tap ==
    /\ alive
    /\ reg.open
    /\ \E rfid_tag \in Cards, F \in FailSets({Site("reg_get_member", 0)}) :
          LET existing_member ==
                  get_member_by_rfid(members, rfid_tag, Site("reg_get_member", 0) \in F)
              tap == [EvNone EXCEPT !.op = "card_tap", !.card = rfid_tag,
                                    !.fails = F, !.calls = 1]
          IN IF existing_member # NULL /\ ~reg.override
             THEN /\ ev' = [tap EXCEPT !.outcome = "conflict"]
                  /\ UNCHANGED reg
             ELSE /\ ev' = [tap EXCEPT !.outcome = "detected"]
                  /\ reg' = [reg EXCEPT !.current_rfid = rfid_tag]
    /\ UNCHANGED <<day, slot, dev_mode, booted, is_sleeping, is_processing_tap,
                   reset_timers, last_auto_signout_date, auto_signout_attempted,
                   continue_reading, loops, queue, members, logs, sweeps, stale,
                   log_text, alive, check_window>>

\* Variant: the update that also takes the card from the member who held it.
set_rfid_tag_exclusive(ms, member_id, rfid_tag) ==
    [m \in MemberIds |->
        IF m = member_id THEN [ms[m] EXCEPT !.rfid_tag = rfid_tag]
        ELSE IF ms[m].rfid_tag = rfid_tag THEN [ms[m] EXCEPT !.rfid_tag = ""]
        ELSE ms[m]]

\* update_member(member_record["id"], {"rfid_tag": self.current_rfid}): one row,
\* one column.
set_rfid_tag(ms, member_id, rfid_tag) ==
    [ms EXCEPT ![member_id].rfid_tag = rfid_tag]

\* Variant: register_card that goes on whatever the answer to its question.
OverwriteNeverDeclined(override, reply) == FALSE

\* Whether register_card returns at its overwrite question: the question is asked
\* when the checkbox is unchecked, and "No" returns.
OverwriteDeclined(override, reply) == ~override /\ reply = "No"

\* register_card, run for a click on register_btn: it needs a detected card, reads
\* the first member of the selected position (position_combo lists the positions
\* that members hold), asks before overwriting a card that member has, then sets
\* the member's rfid_tag; on success it stops the reader and accepts the dialog.
register_card ==
    /\ alive
    /\ reg.open
    /\ \E selected_position \in {members[m].position : m \in MemberIds},
          F \in FailSets(RegSites), answer \in {"Yes", "No"} :
          LET member_record ==
                  First({m \in MemberIds : members[m].position = selected_position})
              asked == members[member_record].rfid_tag # "" /\ ~reg.override
              reply == IF asked THEN answer ELSE ""
              run(sites) == [EvNone EXCEPT !.op = "register", !.card = reg.current_rfid,
                                          !.fails = F, !.calls = Cardinality(sites),
                                          !.position = selected_position,
                                          !.member = member_record]
              stay(sites, outcome, r) ==
                  /\ F \subseteq sites
                  /\ ev' = [run(sites) EXCEPT !.outcome = outcome, !.reply = r]
                  /\ UNCHANGED <<reg, members, continue_reading, stale>>
              select == {Site("reg_select", 0)}
              both == {Site("reg_select", 0), Site("reg_update_member", 0)}
          IN /\ asked \/ answer = "Yes"
             /\ IF reg.current_rfid = ""
                THEN answer = "Yes" /\ stay({}, "no_card", "")
                ELSE IF Site("reg_select", 0) \in F
                THEN answer = "Yes" /\ stay(select, "error", "")
                ELSE IF members[member_record].rfid_tag # ""
                        /\ OverwriteDeclined(reg.override, reply)
                THEN stay(select, "declined", reply)
                ELSE IF Site("reg_update_member", 0) \in F
                THEN stay(both, "failed_update", reply)
                ELSE /\ F \subseteq both
                     /\ members' = set_rfid_tag(members, member_record,
                                                reg.current_rfid)
                     \* stop_reading(), then accept(), whose hideEvent stops again
                     /\ continue_reading' = stop_reading(stop_reading(continue_reading))
                     /\ stale' = loops
                     /\ reg' = [reg EXCEPT !.open = FALSE, !.returned = TRUE]
                     /\ ev' = [run(both) EXCEPT !.outcome = "success",
                                                !.reply = reply]
    /\ UNCHANGED <<day, slot, dev_mode, booted, is_sleeping, is_processing_tap,
                   reset_timers, last_auto_signout_date, auto_signout_attempted,
                   loops, queue, logs, sweeps,
                   log_text, alive, check_window>>

\* cancel_btn: close(), whose closeEvent stops the reader, as does the hideEvent
\* that follows; exec_() returns.
registration_closeEvent ==
    /\ alive
    /\ reg.open
    /\ reg' = [reg EXCEPT !.open = FALSE, !.returned = TRUE]
    /\ continue_reading' = stop_reading(stop_reading(continue_reading))
    /\ stale' = loops
    /\ ev' = [EvNone EXCEPT !.op = "close"]
    /\ UNCHANGED <<day, slot, dev_mode, booted, is_sleeping, is_processing_tap,
                   reset_timers, last_auto_signout_date, auto_signout_attempted,
                   loops, queue, members, logs, sweeps,
                   log_text, alive, check_window>>

-----------------------------------------------------------------------------
(* CheckHoursWindow *)

\* show_check_hours_window up to exec_(): stop_reading() and join(timeout=1.0),
\* within which any of the running loops may have left; CheckHoursWindow.__init__
\* starts a reader thread, whose start_reading sets _continue_reading again.
show_check_hours_window ==
    /\ alive
    /\ booted
    /\ MainWindowInUse
    /\ \E left \in 0..loops :
          /\ left + 2 <= MaxLoops
          /\ loops' = left + 1
          /\ stale' = left
    /\ continue_reading' = TRUE
    /\ check_window' = "open"
    /\ ev' = [EvNone EXCEPT !.op = "show_check_hours"]
    /\ UNCHANGED <<day, slot, dev_mode, booted, is_sleeping, is_processing_tap,
                   reset_timers, last_auto_signout_date, auto_signout_attempted,
                   queue, members, logs, reg, sweeps, log_text, alive>>

CheckSites == {Site(n, 0) : n \in {"chk_get_member", "chk_get_active", "chk_select"}}

\* Variant: a handle_card_tap that closes the active session it found.
check_tap_closing(ms, lg, rfid_tag, F) ==
    LET member == get_member_by_rfid(ms, rfid_tag, FALSE)
        active_session == get_active_session(lg, member, FALSE)
    IN IF member = NULL \/ active_session = NULL
       THEN [members |-> ms, logs |-> lg]
       ELSE [members |-> ms,
             logs |-> [lg EXCEPT ![active_session].sign_out_time = Now]]

\* The tables after CheckHoursWindow.handle_card_tap: its three store calls are
\* selects, which write nothing.
check_tap(ms, lg, rfid_tag, F) == [members |-> ms, logs |-> lg]

\* CheckHoursWindow.handle_card_tap: the member, the active session, the sessions
\* of the current week; the label shows the hours, or an error.
check_handle_card_tap ==
    /\ alive
    /\ check_window = "open"
    /\ \E rfid_tag \in Cards, F \in FailSets(CheckSites) :
          LET member == get_member_by_rfid(members, rfid_tag,
                                           Site("chk_get_member", 0) \in F)
              active_session ==
                  get_active_session(logs, member, Site("chk_get_active", 0) \in F)
              data == {i \in 1..Len(logs) : logs[i].user_id = member}
              sites == IF member = NULL THEN {Site("chk_get_member", 0)}
                       ELSE CheckSites
              after == check_tap(members, logs, rfid_tag, F)
          IN /\ F \subseteq sites
             /\ members' = after.members
             /\ logs' = after.logs
             /\ ev' = [EvNone EXCEPT
                         !.op = "check_hours_tap", !.card = rfid_tag, !.fails = F,
                         !.calls = Cardinality(sites),
                         !.member = member,
                         !.outcome =
                             IF member = NULL THEN "unknown_card"
                             ELSE IF Site("chk_select", 0) \in F THEN "error"
                             ELSE IF data = {} /\ active_session = NULL
                             THEN "no_hours"
                             ELSE "hours"]
    /\ UNCHANGED <<day, slot, dev_mode, booted, is_sleeping, is_processing_tap,
                   reset_timers, last_auto_signout_date, auto_signout_attempted,
                   continue_reading, loops, queue, reg, sweeps, stale, log_text,
                   alive, check_window>>

\* close_btn: close(), whose closeEvent stops the reader and joins its thread with
\* a timeout; exec_() returns.
check_closeEvent ==
    /\ alive
    /\ check_window = "open"
    /\ check_window' = "returned"
    /\ continue_reading' = stop_reading(continue_reading)
    /\ stale' = loops
    /\ ev' = [EvNone EXCEPT !.op = "check_close"]
    /\ UNCHANGED <<day, slot, dev_mode, booted, is_sleeping, is_processing_tap,
                   reset_timers, last_auto_signout_date, auto_signout_attempted,
                   loops, queue, members, logs, reg, sweeps, log_text, alive>>

\* show_check_hours_window after exec_() returned: reinitialize() and
\* start_rfid_reader().
check_hours_returned ==
    /\ alive
    /\ check_window = "returned"
    /\ check_window' = "none"
    /\ continue_reading' = TRUE
    /\ loops' = loops + 1
    /\ ev' = [EvNone EXCEPT !.op = "check_hours_returned"]
    /\ UNCHANGED <<day, slot, dev_mode, booted, is_sleeping, is_processing_tap,
                   reset_timers, last_auto_signout_date, auto_signout_attempted,
                   queue, members, logs, reg, sweeps, stale, log_text, alive>>

-----------------------------------------------------------------------------
(* RFIDReader on its own: the calls of its interface, in any order *)

\* A thread enters start_reading: the flag is set, then the loop runs.
start_reading ==
    /\ loops < MaxLoops
    /\ continue_reading' = TRUE
    /\ loops' = loops + 1
    /\ ev' = [EvNone EXCEPT !.op = "start_reading"]
    /\ UNCHANGED <<day, slot, dev_mode, booted, is_sleeping, is_processing_tap,
                   reset_timers, last_auto_signout_date, auto_signout_attempted,
                   queue, members, logs, reg, sweeps, stale,
                   log_text, alive, check_window>>

\* A call of stop_reading.
call_stop_reading ==
    /\ continue_reading' = stop_reading(continue_reading)
    /\ stale' = loops
    /\ ev' = [EvNone EXCEPT !.op = "stop_reading"]
    /\ UNCHANGED <<day, slot, dev_mode, booted, is_sleeping, is_processing_tap,
                   reset_timers, last_auto_signout_date, auto_signout_attempted,
                   loops, queue, members, logs, reg, sweeps,
                   log_text, alive, check_window>>

\* A call of reinitialize: _setup_gpio(), which leaves the flag alone.
reinitialize ==
    /\ ev' = [EvNone EXCEPT !.op = "reinitialize"]
    /\ UNCHANGED <<day, slot, dev_mode, booted, is_sleeping, is_processing_tap,
                   reset_timers, last_auto_signout_date, auto_signout_attempted,
                   continue_reading, loops, queue, members, logs, reg, sweeps,
                   stale,
                   log_text, alive, check_window>>

-----------------------------------------------------------------------------
(* DatabaseManager.get_positions on its own *)

\* A call of get_positions on the store as it stands, the store call raising or not.
call_get_positions ==
    /\ \E raised \in BOOLEAN :
          ev' = [EvNone EXCEPT !.op = "get_positions", !.error = raised,
                               !.calls = 1,
                               !.positions = get_positions(members, raised)]
    /\ UNCHANGED <<day, slot, dev_mode, booted, is_sleeping, is_processing_tap,
                   reset_timers, last_auto_signout_date, auto_signout_attempted,
                   continue_reading, loops, queue, members, logs, reg, sweeps,
                   stale,
                   log_text, alive, check_window>>

-----------------------------------------------------------------------------
(* DatabaseManager on its own: a call of each public operation *)

\* What a call of a store operation leaves alone: all but the tables and ev.
StoreCallFrame ==
    UNCHANGED <<day, slot, dev_mode, booted, is_sleeping, is_processing_tap,
                reset_timers, last_auto_signout_date, auto_signout_attempted,
                continue_reading, loops, queue, reg, sweeps, stale,
                   log_text, alive, check_window>>

\* The store call of an operation that makes one: its name, and whether it raises.
OneCall(name, raised) == IF raised THEN {Site(name, 0)} ELSE {}

call_get_member_by_rfid ==
    /\ \E rfid_tag \in Cards, raised \in BOOLEAN :
          ev' = [EvNone EXCEPT !.op = "get_member_by_rfid", !.card = rfid_tag,
                               !.fails = OneCall("get_member", raised), !.calls = 1,
                               !.returned = get_member_by_rfid(members, rfid_tag, raised)]
    /\ UNCHANGED <<members, logs>>
    /\ StoreCallFrame

call_get_active_session ==
    /\ \E member_id \in MemberIds, raised \in BOOLEAN :
          ev' = [EvNone EXCEPT !.op = "get_active_session", !.member = member_id,
                               !.fails = OneCall("get_active", raised), !.calls = 1,
                               !.returned = get_active_session(logs, member_id, raised)]
    /\ UNCHANGED <<members, logs>>
    /\ StoreCallFrame

call_update_member ==
    /\ \E member_id \in MemberIds, inoffice \in BOOLEAN, raised \in BOOLEAN :
          /\ members' = update_member(members, member_id, inoffice, raised)
          /\ ev' = [EvNone EXCEPT !.op = "update_member", !.member = member_id,
                                  !.fails = OneCall("update_member", raised),
                                  !.calls = 1,
                                  !.outcome = IF update_member_ok(raised)
                                              THEN "True" ELSE "False"]
    /\ UNCHANGED logs
    /\ StoreCallFrame

call_sign_in ==
    /\ Len(logs) < MaxLogs
    /\ \E rfid_tag \in Cards, F \in FailSets(TapSites) :
          LET log_entry == sign_in(members, logs, rfid_tag, F)
          IN /\ F \subseteq log_entry.sites
             /\ members' = log_entry.members
             /\ logs' = log_entry.logs
             /\ ev' = [EvNone EXCEPT !.op = "sign_in", !.card = rfid_tag, !.fails = F,
                                     !.calls = Cardinality(log_entry.sites),
                                     !.signin = log_entry.result]
    /\ StoreCallFrame

call_sign_out ==
    /\ \E rfid_tag \in Cards, F \in FailSets(TapSites) :
          LET out == sign_out(members, logs, rfid_tag, F)
          IN /\ F \subseteq out.sites
             /\ members' = out.members
             /\ logs' = out.logs
             /\ ev' = [EvNone EXCEPT !.op = "sign_out", !.card = rfid_tag, !.fails = F,
                                     !.calls = Cardinality(out.sites),
                                     !.signout = TRUE, !.duration = out.duration]
    /\ StoreCallFrame

call_auto_sign_out ==
    /\ \E F \in FailSets(SweepSites) :
          LET result == auto_sign_out(members, logs, F)
          IN /\ F \subseteq result.sites
             /\ members' = result.ms
             /\ logs' = result.lg
             /\ ev' = [EvNone EXCEPT !.op = "auto_sign_out", !.fails = F,
                                     !.calls = Cardinality(result.sites),
                                     !.swept = TRUE, !.error = result.error,
                                     !.signed_out = result.members]
    /\ StoreCallFrame

call_upload_system_logs ==
    /\ \E raised \in BOOLEAN :
          ev' = [EvNone EXCEPT !.op = "upload_system_logs",
                               !.fails = OneCall("upload_insert", raised /\ TimezoneHasUtc),
                               !.calls = IF TimezoneHasUtc THEN 1 ELSE 0,
                               !.outcome = IF upload_system_logs(raised)
                                           THEN "True" ELSE "False"]
    /\ UNCHANGED <<members, logs>>
    /\ StoreCallFrame

-----------------------------------------------------------------------------
(* The wall clock *)

clock_tick ==
    /\ IF slot < Len(Slots)
       THEN slot' = slot + 1 /\ UNCHANGED <<day, sweeps>>
       ELSE day < MaxDay /\ day' = day + 1 /\ slot' = 1 /\ sweeps' = 0
    /\ ev' = EvNone
    /\ UNCHANGED <<dev_mode, booted, is_sleeping, is_processing_tap, reset_timers,
                   last_auto_signout_date, auto_signout_attempted, continue_reading,
                   loops, queue, members, logs, reg, stale,
                   log_text, alive, check_window>>

-----------------------------------------------------------------------------
(* The system *)

\* A session as the store holds it when the application starts.
OpenSession(m) ==
    [user_id |-> m, sign_in_time |-> OpenedAt, sign_out_time |-> NULL,
     duration |-> NULL, message |-> "Signed In"]

\* The asg_logs table holding one open session for each member of a set, in id order.
RECURSIVE OpenSessions(_)
OpenSessions(S) ==
    IF S = {} THEN << >>
    ELSE <<OpenSession(First(S))>> \o OpenSessions(S \ {First(S)})

\* The state in which __init__ makes its call of check_system_state: the fields as
\* lines 44-51 set them, the reader thread started, and a store in which each
\* member has at most one open session and either value of the inoffice flag.
InitApp ==
    /\ day = 0
    /\ slot \in 1..Len(Slots)
    /\ booted = FALSE
    /\ is_sleeping = FALSE
    /\ is_processing_tap = FALSE
    /\ reset_timers = 0
    /\ last_auto_signout_date = NULL
    /\ auto_signout_attempted = FALSE
    /\ continue_reading = TRUE
    /\ loops = 1
    /\ stale = 0
    /\ queue = << >>
    /\ reg = RegNone
    /\ members \in [MemberIds -> [rfid_tag : Cards, inoffice : BOOLEAN,
                                   position : Positions, name : Names]]
    /\ \A m \in MemberIds : /\ members[m].rfid_tag = CardOf(m)
                             /\ members[m].position = PositionOf(m)
                             /\ members[m].name = NameOf(m)
    /\ \E S \in SUBSET MemberIds : logs = OpenSessions(S)
    /\ sweeps = 0
    /\ ev = EvNone
    /\ log_text = append_log("")
    /\ alive = TRUE
    /\ check_window = "none"

\* The application as configured: DEV_MODE = False.
Init ==
    /\ dev_mode = DEV_MODE
    /\ InitApp

Next ==
    \/ handle_tap
    \/ reset_circle_color
    \/ check_system_state
    \/ reader_poll
    \/ reader_exit
    \/ clock_tick

Spec == Init /\ [][Next]_vars

\* The application started with DEV_MODE = True in config.py.
InitDev ==
    /\ dev_mode = TRUE
    /\ InitApp

\* In DEV mode check_system_state never calls sleep_system, so nothing clears
\* _continue_reading and the reader loop never leaves: reader_exit has no step.
NextDev ==
    \/ handle_tap
    \/ reset_circle_color
    \/ check_system_state
    \/ reader_poll
    \/ clock_tick

SpecDev == InitDev /\ [][NextDev]_vars

\* The main window awake and reading, at an instant of a weekday's working hours
\* (the dialog's handlers do not read the clock), over a store in which a member
\* may have any card or none, no card being held by two members.
InitReg ==
    /\ day = 0
    /\ slot = 3
    /\ dev_mode = DEV_MODE
    /\ booted = TRUE
    /\ is_sleeping = FALSE
    /\ is_processing_tap = FALSE
    /\ reset_timers = 0
    /\ last_auto_signout_date = NULL
    /\ auto_signout_attempted = FALSE
    /\ continue_reading = TRUE
    /\ loops = 1
    /\ stale = 0
    /\ queue = << >>
    /\ reg = RegNone
    /\ members \in [MemberIds -> [rfid_tag : Cards \cup {""}, inoffice : BOOLEAN,
                                   position : Positions, name : Names]]
    /\ \A m \in MemberIds : members[m].name = NameOf(m)
    /\ \A m, o \in MemberIds :
          (m # o /\ members[m].rfid_tag # "")
          => members[m].rfid_tag # members[o].rfid_tag
    /\ \E S \in SUBSET MemberIds : logs = OpenSessions(S)
    /\ sweeps = 0
    /\ ev = EvNone
    /\ log_text = append_log("")
    /\ alive = TRUE
    /\ check_window = "none"

\* The registration dialog opened from the main window, its handlers, and the
\* reader threads leaving their loops.  The main window's timers, which also run
\* while the dialog is on screen, read and write neither the dialog nor rfid_tag.
NextReg ==
    \/ show_registration_window
    \/ registration_returned
    \/ reader_exit
    \/ toggle_override
    \/ handle_card_tap
    \/ register_card
    \/ registration_closeEvent

SpecReg == InitReg /\ [][NextReg]_vars

\* The CheckHoursWindow opened from the main window, awake and reading as in
\* InitReg, on every store of InitReg.
NextCheckHours ==
    \/ show_check_hours_window
    \/ check_handle_card_tap
    \/ check_closeEvent
    \/ check_hours_returned
    \/ reader_exit

SpecCheckHours == InitReg /\ [][NextCheckHours]_vars

\* An RFIDReader as its __init__ leaves it, no thread started yet, under any
\* sequence of calls of start_reading, stop_reading and reinitialize, with the
\* loops polling cards and leaving.
InitReader ==
    /\ day = 0
    /\ slot = 3
    /\ dev_mode = DEV_MODE
    /\ booted = FALSE
    /\ is_sleeping = FALSE
    /\ is_processing_tap = FALSE
    /\ reset_timers = 0
    /\ last_auto_signout_date = NULL
    /\ auto_signout_attempted = FALSE
    /\ continue_reading = TRUE
    /\ loops = 0
    /\ stale = 0
    /\ queue = << >>
    /\ reg = RegNone
    /\ members = [m \in MemberIds |->
                    [rfid_tag |-> CardOf(m), inoffice |-> FALSE,
                     position |-> PositionOf(m), name |-> NameOf(m)]]
    /\ logs = << >>
    /\ sweeps = 0
    /\ ev = EvNone
    /\ log_text = append_log("")
    /\ alive = TRUE
    /\ check_window = "none"

NextReader ==
    \/ start_reading
    \/ call_stop_reading
    \/ reinitialize
    \/ reader_poll
    \/ reader_exit

SpecReader == InitReader /\ [][NextReader]_vars

\* Any asg_members table of the two rows: each name absent, empty, blank or given,
\* each position absent, empty or a label.
InitPositions ==
    /\ day = 0
    /\ slot = 3
    /\ dev_mode = DEV_MODE
    /\ booted = FALSE
    /\ is_sleeping = FALSE
    /\ is_processing_tap = FALSE
    /\ reset_timers = 0
    /\ last_auto_signout_date = NULL
    /\ auto_signout_attempted = FALSE
    /\ continue_reading = TRUE
    /\ loops = 0
    /\ stale = 0
    /\ queue = << >>
    /\ reg = RegNone
    /\ members \in [MemberIds -> [rfid_tag : Cards, inoffice : {FALSE},
                                   position : Positions \cup {NoValue, ""},
                                   name : Names]]
    /\ \A m \in MemberIds : members[m].rfid_tag = CardOf(m)
    /\ logs = << >>
    /\ sweeps = 0
    /\ ev = EvNone
    /\ log_text = append_log("")
    /\ alive = TRUE
    /\ check_window = "none"

NextPositions == call_get_positions

SpecPositions == InitPositions /\ [][NextPositions]_vars

\* The dialogs and the schedule: the main window's evaluations go on while a
\* dialog is inside exec_(), whose event loop runs the state_timer.
NextWindows ==
    \/ check_system_state
    \/ clock_tick
    \/ reader_exit
    \/ show_registration_window
    \/ registration_closeEvent
    \/ registration_returned
    \/ show_check_hours_window
    \/ check_closeEvent
    \/ check_hours_returned

SpecWindows == Init /\ [][NextWindows]_vars

\* The log display: the evaluations of the schedule, with their sweeps, and the
\* upload button.
NextLogs ==
    \/ check_system_state
    \/ upload_logs
    \/ clock_tick

SpecLogs == Init /\ [][NextLogs]_vars

\* The store operations called in any order on the store of Init.
NextStore ==
    \/ call_get_positions
    \/ call_update_member
    \/ call_get_member_by_rfid
    \/ call_get_active_session
    \/ call_sign_in
    \/ call_sign_out
    \/ call_auto_sign_out
    \/ call_upload_system_logs

SpecStore == Init /\ [][NextStore]_vars

\* SpecReg with the scheduling the code has: a reader thread keeps running, so a
\* loop that finds _continue_reading cleared for as long as it takes to look does
\* leave; and show_registration_window goes on once exec_() has returned.
SpecRegFair ==
    /\ SpecReg
    /\ WF_vars(reader_exit)
    /\ WF_vars(registration_returned)


-----------------------------------------------------------------------------
(* Properties *)

\* The member a card is bound to, and a member's active session, read without error.
MemberOfCard(card) == get_member_by_rfid(members, card, FALSE)
ActiveOf(lg, m) == get_active_session(lg, m, FALSE)
ActiveSessions(lg, m) ==
    {i \in 1..Len(lg) : lg[i].user_id = m /\ lg[i].sign_out_time = NULL}

\* The allowed sign-in window of the configuration: from the start time up to the
\* cutoff hour.
InSignInWindow ==
    /\ ~(current_hour < START_TIME_HOUR
         \/ (current_hour = START_TIME_HOUR /\ current_minute < START_TIME_MINUTE))
    /\ current_hour < AUTO_SIGNOUT_HOUR

\* A step of handle_tap that got past the guard and the sleeping check with no
\* store call raising, for the card of a registered member.
ProcessedTapStep ==
    /\ ev'.op = "tap"
    /\ ~is_processing_tap
    /\ ~is_sleeping
    /\ ev'.fails = {}
    /\ MemberOfCard(ev'.card) # NULL

\* C1: in every reachable state each member has at most one session whose
\* sign-out timestamp is null, whatever taps and sweeps ran and whichever of their
\* store calls raised.
C1_AtMostOneActiveSession ==
    \A m \in MemberIds : Cardinality(ActiveSessions(logs, m)) <= 1

\* C1 witness: a tap of a member who has an active session, in the sign-in window,
\* whose active-session lookup raised, so that handle_tap went on to sign_in.
C1_Witness ==
    /\ ev.op = "tap"
    /\ Site("tap_get_active", 0) \in ev.fails
    /\ ev.signin = "none"
    /\ InSignInWindow
    /\ ActiveOf(logs, MemberOfCard(ev.card)) # NULL

\* C2: a tap of a registered member with no active session, processed inside the
\* sign-in window with no store failure, appends exactly one session for the member
\* (sign-in time now, sign-out time null) and sets the member's present flag.
C2_TapSignsIn ==
    [][(ProcessedTapStep /\ InSignInWindow
        /\ ActiveOf(logs, MemberOfCard(ev'.card)) = NULL)
       => LET m == MemberOfCard(ev'.card)
          IN /\ logs' = Append(logs, [user_id |-> m, sign_in_time |-> Now,
                                      sign_out_time |-> NULL, duration |-> NULL,
                                      message |-> "Signed In"])
             /\ members' = [members EXCEPT ![m].inoffice = TRUE]]_vars

\* C3: a tap of a registered member with an active session, processed with no store
\* failure, closes that session with sign-out time now and duration now minus
\* sign-in time, clears the member's present flag and creates no session.
C3_TapSignsOut ==
    [][(ProcessedTapStep /\ ActiveOf(logs, MemberOfCard(ev'.card)) # NULL)
       => LET m == MemberOfCard(ev'.card)
              s == ActiveOf(logs, m)
          IN /\ logs' = [logs EXCEPT ![s] =
                            [@ EXCEPT !.sign_out_time = Now,
                                      !.duration = Now - logs[s].sign_in_time,
                                      !.message = "Signed Out"]]
             /\ members' = [members EXCEPT ![m].inoffice = FALSE]]_vars

\* C4: a tap that arrives while the single-flight guard is held makes no store
\* call, changes no row of the store and leaves the guard and its timer alone.
C4_SecondTapIgnored ==
    [][(ev'.op = "tap" /\ is_processing_tap)
       => /\ ev'.calls = 0
          /\ members' = members
          /\ logs' = logs
          /\ is_processing_tap'
          /\ reset_timers' = reset_timers]_vars

\* C4 witness: a tap was dropped while the guard set by an earlier tap was held,
\* its reset timer still pending.
C4_Witness ==
    /\ ev.op = "tap"
    /\ ev.outcome = "ignored"
    /\ is_processing_tap
    /\ reset_timers = 1

\* C5: whenever sign_in returned a session, the session row and the member's present
\* flag are both in the store, and whenever sign_out returned a duration, the
\* session is closed and the present flag cleared; otherwise the call reported
\* failure.
C5_SuccessMeansBothMutations ==
    ev.op = "tap" =>
        LET m == MemberOfCard(ev.card)
        IN /\ ev.signin = "session" =>
                /\ members[m].inoffice
                /\ \E i \in ActiveSessions(logs, m) : logs[i].sign_in_time = Now
           /\ ev.duration # NULL =>
                /\ ~members[m].inoffice
                /\ \E i \in 1..Len(logs) :
                      /\ logs[i].user_id = m
                      /\ logs[i].sign_out_time = Now
                      /\ logs[i].duration = ev.duration
           /\ ev.outcome \in {"signed_in", "signed_out"} =>
                (ev.signin = "session" \/ ev.duration # NULL)

\* C5 witness: sign_out ran for a member with an active session and no store call
\* raising, and ended reported failed with the session still open.
C5_Witness ==
    /\ ev.op = "tap"
    /\ ev.signout
    /\ ev.fails = {}
    /\ ev.duration = NULL
    /\ ev.outcome = "error_sign_out"
    /\ ActiveOf(logs, MemberOfCard(ev.card)) # NULL

\* C6, as a finite run refutes it: whenever the guard is held, a timer that will
\* run reset_circle_color is pending (nothing else clears the guard).
C6_GuardHasResetPending ==
    is_processing_tap => reset_timers > 0

\* C7: on every calendar date auto_sign_out is called at most once, however many
\* times check_system_state runs on that date.
C7_OneSweepPerDay ==
    sweeps <= 1

\* C7 witness: after the sweep of the day, a later evaluation in the auto sign-out
\* minute found the attempt flag reset and the system awake, and did not sweep.
C7_Witness ==
    /\ sweeps = 1
    /\ ev.op = "check"
    /\ ~ev.swept
    /\ ~is_sleeping
    /\ current_hour = AUTO_SIGNOUT_HOUR
    /\ current_minute = 0
    /\ ~auto_signout_attempted

C9_SweepIsolatesFailure ==
    \A m \in MemberIds :
        (ev.op = "check" /\ ev.swept /\ ev.fails = {Site("sw_update", m)}
         /\ members[m].inoffice /\ ActiveOf(logs, m) # NULL)
        => \A o \in MemberIds \ {m} :
              ~(members[o].inoffice /\ ActiveOf(logs, o) # NULL)

\* C10: a sweep in which no store call raised closes, with sign-out time now, the
\* active session of every member marked present, marks each of them absent, and
\* returns exactly those members, each once.
C10_SweepClosesAllPresent ==
    [][(ev'.op = "check" /\ ev'.swept /\ ev'.fails = {})
       => LET due == {m \in MemberIds :
                         members[m].inoffice /\ ActiveOf(logs, m) # NULL}
          IN /\ \A m \in due :
                   /\ logs'[ActiveOf(logs, m)].sign_out_time = Now
                   /\ ~members'[m].inoffice
                   /\ ActiveOf(logs', m) = NULL
             /\ {ev'.signed_out[k] : k \in 1..Len(ev'.signed_out)} = due
             /\ Len(ev'.signed_out) = Cardinality(due)
             /\ ~ev'.error]_vars

\* C10 witness: a sweep with no failure signed out both members.
C10_Witness ==
    /\ ev.op = "check"
    /\ ev.swept
    /\ ev.fails = {}
    /\ Len(ev.signed_out) = 2

\* C11: an evaluation calls auto_sign_out exactly when, after its sleep decision, the
\* system is awake, the hour is the auto sign-out hour, the minute is 0 and the date
\* recorded for the last sweep is not the current date; no other evaluation does.
C11_SweepOnlyWhenDue ==
    [][ev'.op = "check"
       => (ev'.swept <=> /\ ~is_sleeping'
                         /\ current_hour = AUTO_SIGNOUT_HOUR
                         /\ current_minute = 0
                         /\ last_auto_signout_date # current_date)]_vars

\* C11 witness: an evaluation of the second day, at the auto sign-out hour with the
\* system awake, ran the sweep.
C11_Witness ==
    /\ ev.op = "check"
    /\ ev.swept
    /\ day = 1
    /\ sweeps = 1
    /\ ~is_sleeping

\* C12: a tap, processed past the guard and the sleeping check, of a card that is
\* bound to no member ends with the unknown-card error, creates no session and
\* changes no member record.
C12_UnknownCardRejected ==
    [][(/\ ev'.op = "tap"
        /\ ~is_processing_tap
        /\ ~is_sleeping
        /\ \A m \in MemberIds : members[m].rfid_tag # ev'.card)
       => /\ ev'.outcome = "unknown_card"
          /\ ev'.signin = ""
          /\ ~ev'.signout
          /\ logs' = logs
          /\ members' = members]_vars

\* C12 witness: the card bound to nobody was tapped, in the sign-in window with the
\* lookup not raising, and the tap ended with the unknown-card error.
C12_Witness ==
    /\ ev.op = "tap"
    /\ ev.card = "123456"
    /\ ev.fails = {}
    /\ ev.outcome = "unknown_card"
    /\ InSignInWindow

\* The instant of the clock is before the configured start time.
BeforeStartTime ==
    current_hour * 60 + current_minute < START_TIME_HOUR * 60 + START_TIME_MINUTE

\* C13: with the bypass off, every call of sign_in made by a tap before the start
\* time returns the before_hours error, every call at or after the cutoff hour
\* returns the after_hours error, the tap shows that error, and the rejected call
\* writes no session and leaves every present flag as it was.
C13_SignInOutsideWindowRejected ==
    [][(ev'.op = "tap" /\ ev'.signin # "" /\ ~dev_mode)
       => /\ BeforeStartTime
               => ev'.signin = "before_hours" /\ ev'.outcome = "before_hours"
          /\ (~BeforeStartTime /\ current_hour >= AUTO_SIGNOUT_HOUR)
               => ev'.signin = "after_hours" /\ ev'.outcome = "after_hours"
          /\ ev'.signin \in {"before_hours", "after_hours"}
               => logs' = logs /\ members' = members /\ ev'.calls = 2]_vars

\* C13 witness: a member with no active session tapped at the cutoff hour, with no
\* store call raising, and was rejected with after_hours.
C13_Witness ==
    /\ ev.op = "tap"
    /\ ev.fails = {}
    /\ ev.signin = "after_hours"
    /\ current_hour = AUTO_SIGNOUT_HOUR
    /\ MemberOfCard(ev.card) # NULL
    /\ ActiveOf(logs, MemberOfCard(ev.card)) = NULL

\* A second case of C13: a tap before the start time was rejected with before_hours.
C13_WitnessBeforeHours ==
    /\ ev.op = "tap"
    /\ ev.fails = {}
    /\ ev.signin = "before_hours"
    /\ BeforeStartTime

\* C14: with the bypass on, no sign_in call is rejected for the time of day and
\* every evaluation leaves the system awake, on every day of the week and at every
\* time of day.
C14_DevModeBypassesSchedule ==
    [][dev_mode
       => /\ ev'.op = "tap"
               => /\ ev'.signin \notin {"before_hours", "after_hours"}
                  /\ ev'.outcome \notin {"before_hours", "after_hours"}
          /\ ev'.op = "check" => ~is_sleeping']_vars

\* C14 witness: with the bypass on, a tap on a Saturday before the start time found
\* the system awake and its sign_in call was not rejected for the time.
C14_Witness ==
    /\ dev_mode
    /\ ev.op = "tap"
    /\ ev.signin = "none"
    /\ current_weekday = 5
    /\ BeforeStartTime
    /\ ~is_sleeping

\* A second case of C14: an evaluation on a Saturday, at the sleep time, left the
\* system awake.
C14_WitnessEvaluation ==
    /\ dev_mode
    /\ ev.op = "check"
    /\ current_weekday = 5
    /\ current_hour = SLEEP_TIME_HOUR
    /\ current_minute = SLEEP_TIME_MINUTE
    /\ ~is_sleeping

AtOrAfterSleepTime ==
    current_hour * 60 + current_minute >= SLEEP_TIME_HOUR * 60 + SLEEP_TIME_MINUTE

C16_WitnessStartTime ==
    /\ ev.op = "check"
    /\ ~dev_mode
    /\ current_weekday \notin {5, 6}
    /\ current_hour = START_TIME_HOUR
    /\ current_minute = START_TIME_MINUTE
    /\ ~is_sleeping

C16_WitnessAsleep ==
    /\ ev.op = "check"
    /\ ~dev_mode
    /\ current_weekday \notin {5, 6}
    /\ AtOrAfterSleepTime
    /\ is_sleeping

\* C17: while the system is asleep, a tap delivered to handle_tap is not accepted:
\* it makes no store call, calls neither sign_in nor sign_out, creates and closes
\* no session and changes no present flag.
C17_AsleepTapChangesNothing ==
    [][(ev'.op = "tap" /\ is_sleeping)
       => /\ ev'.calls = 0
          /\ ev'.signin = ""
          /\ ~ev'.signout
          /\ logs' = logs
          /\ members' = members]_vars

\* C17 witness: the card of a member was delivered while the system was asleep,
\* the guard being clear, and handle_tap returned at its sleeping check.
C17_Witness ==
    /\ ev.op = "tap"
    /\ ev.outcome = "asleep"
    /\ is_sleeping
    /\ MemberOfCard(ev.card) # NULL

\* C18, as a finite run refutes it: a tap of a registered member's card that is
\* delivered while the system is awake and no message of an earlier tap is on
\* display (no reset timer pending) is processed, not dropped by the guard,
\* whatever was tapped before or during an earlier sleep.
C18_TapAfterWakeProcessed ==
    [][(/\ ev'.op = "tap"
        /\ ~is_sleeping
        /\ reset_timers = 0
        /\ MemberOfCard(ev'.card) # NULL)
       => ev'.outcome # "ignored"]_vars

\* C19: no step of the registration dialog gives a member a card that another
\* member holds while the override checkbox is unchecked at that step.
C19_NoBindingOfBoundCardWithoutOverride ==
    [][\A m \in MemberIds :
          (/\ members'[m].rfid_tag # members[m].rfid_tag
           /\ \E o \in MemberIds \ {m} : members[o].rfid_tag = members'[m].rfid_tag)
          => reg.override]_vars

\* C20: a step of register_card changes the card of a member who has one only if
\* the override checkbox is checked or the overwrite question was answered "Yes",
\* and a run whose question was answered "No" changes no member record.
C20_OverwriteNeedsOverrideOrConfirmation ==
    [][ev'.op = "register"
       => /\ \A m \in MemberIds :
                (members[m].rfid_tag # "" /\ members'[m].rfid_tag # members[m].rfid_tag)
                => (reg.override \/ ev'.reply = "Yes")
          /\ ev'.reply = "No" => members' = members]_vars

\* C20 witness: for a position whose member had a card, with the checkbox
\* unchecked, the question was answered "No" and register_card returned.
C20_Witness ==
    /\ ev.op = "register"
    /\ ev.reply = "No"
    /\ ev.outcome = "declined"
    /\ ev.fails = {}
    /\ ~reg.override
    /\ reg.open
    /\ members[ev.member].rfid_tag \notin {"", ev.card}

\* A second case of C20: the question was answered "Yes" and the card overwritten.
C20_WitnessConfirmed ==
    /\ ev.op = "register"
    /\ ev.reply = "Yes"
    /\ ev.outcome = "success"
    /\ members[ev.member].rfid_tag = ev.card

\* C21: a register_card run that succeeded set the card tag of the first member of
\* the selected position to the detected card and changed nothing else: no session,
\* no present flag, no position, no other member record.
C21_RegistrationChangesOneTag ==
    [][(ev'.op = "register" /\ ev'.outcome = "success")
       => LET data == {m \in MemberIds : members[m].position = ev'.position}
              target == CHOOSE m \in data : \A o \in data : m <= o
          IN /\ logs' = logs
             /\ members' = [members EXCEPT ![target].rfid_tag = reg.current_rfid]]_vars

\* C21 witness: both members hold the selected position, the card registered was
\* held by the second of them, and the run succeeded.
C21_Witness ==
    /\ ev.op = "register"
    /\ ev.outcome = "success"
    /\ \A m \in MemberIds : members[m].position = ev.position
    /\ ev.member = 1
    /\ members[2].rfid_tag = ev.card

\* C22: in every state reached by the registration dialog from a store with no
\* shared card, no two member records hold the same non-empty rfid_tag.
C22_TagsUnique ==
    \A m, o \in MemberIds :
        (m # o /\ members[m].rfid_tag # "") => members[m].rfid_tag # members[o].rfid_tag

\* C23: in every state at most one reader thread is inside the loop of
\* start_reading.
C23_AtMostOneReaderLoop ==
    loops <= 1

\* C24: every reader loop that was running when stop_reading was called eventually
\* leaves its loop (and runs cleanup).  Checked on the behaviours in which
\* stop_reading is not called again from some point on, so that the loops told to
\* stop do not grow in number: there, eventually none of them is running.
C24_StoppedLoopsExit ==
    (<>[]continue_reading) => <>[](stale = 0)

\* C25: every call of stop_reading leaves the reader stopped, with the loops as
\* they were, whether or not a loop is running; and a call on a stopped reader
\* leaves it in the state a single call left it in.
C25_StopReadingIdempotent ==
    [][ev'.op = "stop_reading"
       => /\ ~continue_reading'
          /\ loops' = loops
          /\ queue' = queue
          /\ ~continue_reading => continue_reading' = continue_reading]_vars

\* C25 witness: stop_reading was called on a reader with no loop running.
C25_Witness ==
    /\ ev.op = "stop_reading"
    /\ loops = 0
    /\ ~continue_reading

\* A member who counts for the position list: a name that is not empty and a
\* position that is not empty.
Seated(m) ==
    /\ members[m].name \notin {NoValue, "", " "}
    /\ members[m].position \notin {NoValue, ""}

\* C27: get_positions returns [] when the store call raised, and otherwise the
\* distinct non-empty positions of the members with non-empty names, each once, in
\* the order in which the store's member list first shows them.
C27_PositionsOfSeatedMembers ==
    ev.op = "get_positions" =>
        LET r == ev.positions
            first(p) == CHOOSE m \in MemberIds :
                            /\ Seated(m) /\ members[m].position = p
                            /\ \A o \in MemberIds :
                                  (Seated(o) /\ members[o].position = p) => m <= o
        IN IF ev.error THEN r = << >>
           ELSE /\ {r[i] : i \in 1..Len(r)}
                     = {members[m].position : m \in {o \in MemberIds : Seated(o)}}
                /\ \A i, j \in 1..Len(r) : i # j => r[i] # r[j]
                /\ \A i, j \in 1..Len(r) : i < j => first(r[i]) < first(r[j])

\* C26: a call of a store operation in which a store call raises returns the
\* operation's failure value instead of letting the exception out: None from
\* get_member_by_rfid and get_active_session, False from update_member (the table
\* untouched) and upload_system_logs, [] from get_positions, None from sign_in and
\* sign_out (an exception inside their update_member call being update_member's
\* to convert), and the error record with no members from auto_sign_out.
C26_StoreErrorsBecomeFailureResults ==
    (ev.fails # {} \/ ev.error) =>
        /\ ev.op = "get_member_by_rfid" => ev.returned = NULL
        /\ ev.op = "get_active_session" => ev.returned = NULL
        /\ ev.op = "update_member" => ev.outcome = "False"
        /\ ev.op = "upload_system_logs" => ev.outcome = "False"
        /\ ev.op = "get_positions" => ev.positions = << >>
        /\ (ev.op = "sign_in" /\ ev.fails # {Site("si_update_member", 0)})
             => ev.signin = "none"
        /\ (ev.op = "sign_out" /\ ev.fails # {Site("so_update_member", 0)})
             => ev.duration = NULL
        /\ (ev.op = "auto_sign_out"
            /\ ev.fails \cap ({Site("sw_select", 0)}
                               \cup {Site("sw_update", m) : m \in MemberIds}) # {})
             => ev.error /\ ev.signed_out = << >>

\* C26 witness: auto_sign_out was called, the closing of a member's session raised,
\* and the call returned its error record.
C26_Witness ==
    /\ ev.op = "auto_sign_out"
    /\ ev.error
    /\ ev.signed_out = << >>
    /\ \E m \in MemberIds : Site("sw_update", m) \in ev.fails

\* A second case of C26: the lookup of a registered card raised and returned None.
C26_WitnessLookup ==
    /\ ev.op = "get_member_by_rfid"
    /\ ev.fails # {}
    /\ MemberOfCard(ev.card) # NULL
    /\ ev.returned = NULL

\* C28: a tap that handle_tap processes for a registered member with no store
\* failure (inside the sign-in window when the member has no active session), the
\* tap that records a sign-in or a sign-out, ends with the matching notification
\* handed to a sender thread: sign-in for a member without an active session,
\* sign-out for a member with one.
C28_RecordedTapNotifies ==
    [][(/\ ProcessedTapStep
        /\ (ActiveOf(logs, MemberOfCard(ev'.card)) = NULL => InSignInWindow))
       => ev'.notified = IF ActiveOf(logs, MemberOfCard(ev'.card)) = NULL
                         THEN "sign_in" ELSE "sign_out"]_vars

\* The evaluation runs in the minute of the last sweep attempt: minute zero of the
\* auto-sign-out hour of the date that the attempt recorded.
InMinuteOfAttempt ==
    /\ current_hour = AUTO_SIGNOUT_HOUR
    /\ current_minute = 0
    /\ last_auto_signout_date = current_date

\* C29: the attempted-this-hour flag, once set by a sweep attempt, is cleared only
\* by an evaluation of check_system_state at minute zero of a later hour: never by
\* another handler, and never by an evaluation in the minute of the attempt.
C29_AttemptedFlagKeptWithinMinute ==
    [][(auto_signout_attempted /\ ~auto_signout_attempted')
       => /\ ev'.op = "check"
          /\ current_minute = 0
          /\ ~InMinuteOfAttempt]_vars

\* The instant of the clock is at or after the configured wake time.
AtOrAfterWakeTime ==
    current_hour * 60 + current_minute >= WAKE_TIME_HOUR * 60 + WAKE_TIME_MINUTE

\* C30: with the bypass off, a sleeping system is woken only by an evaluation at or
\* after the configured wake time (never earlier), and an evaluation made on a day
\* from Monday to Friday between the wake time and the sleep time leaves it awake.
C30_AsleepUntilWakeTime ==
    [][(~dev_mode /\ is_sleeping)
       => /\ ~is_sleeping' => (ev'.op = "check" /\ AtOrAfterWakeTime)
          /\ (/\ ev'.op = "check"
              /\ current_weekday \notin {5, 6}
              /\ AtOrAfterWakeTime
              /\ ~AtOrAfterSleepTime) => ~is_sleeping']_vars

\* C31: a handler run that cleared the log display is one in which
\* upload_system_logs returned True, and after a run in which it returned False,
\* following a sweep or on the upload button, the display still holds its lines.
C31_LogsClearedOnlyAfterUpload ==
    /\ ev.cleared => ev.upload = "True"
    /\ ev.upload = "False" => log_text = Lines

\* C31 witness: a sweep whose upload of the logs failed, the lines still displayed.
C31_Witness ==
    /\ ev.op = "check"
    /\ ev.swept
    /\ ev.upload = "False"
    /\ ~ev.cleared
    /\ log_text = Lines

\* A second case of C31: the upload button, the upload failing.
C31_WitnessButton ==
    /\ ev.op = "upload_logs"
    /\ ev.upload = "False"
    /\ ~ev.cleared
    /\ log_text = Lines

\* Every member is marked present exactly when the member has an active session.
PresentIffActive(ms, lg) ==
    \A m \in MemberIds : ms[m].inoffice <=> (ActiveOf(lg, m) # NULL)

\* C32: a tap or a sweep that runs with no store call raising, on a store in which
\* each member is marked present exactly when the member has an active session,
\* leaves a store of which the same is true.
C32_PresentIffActivePreserved ==
    [][(/\ PresentIffActive(members, logs)
        /\ ev'.op \in {"tap", "check"}
        /\ ev'.fails = {})
       => PresentIffActive(members', logs')]_vars

\* C32 witness: a sweep without a store failure signed out both members, who were
\* present with an active session each, and the store it left is consistent.
C32_Witness ==
    /\ ev.op = "check"
    /\ ev.swept
    /\ ev.fails = {}
    /\ Len(ev.signed_out) = Cardinality(MemberIds)
    /\ PresentIffActive(members, logs)

\* A second case of C32: a processed tap of a member without a store failure, on a
\* consistent store.
C32_WitnessTap ==
    /\ ev.op = "tap"
    /\ ev.fails = {}
    /\ ev.outcome \in {"error_sign_in", "error_sign_out"}
    /\ PresentIffActive(members, logs)

\* C33: a tap that handle_tap ends with an error message ("Error recording sign
\* in.", "Error recording sign out." or "Error processing card: ...") has changed
\* no session and no member's present flag.
C33_ErrorTapChangesNothing ==
    [][(/\ ev'.op = "tap"
        /\ ev'.outcome \in {"error_sign_in", "error_sign_out", "error_processing"})
       => /\ logs' = logs
          /\ \A m \in MemberIds : members'[m].inoffice = members[m].inoffice]_vars

\* C33 witness: the tap of a member with an active session ended with "Error
\* recording sign out.", the session still open.
C33_Witness ==
    /\ ev.op = "tap"
    /\ ev.outcome = "error_sign_out"
    /\ ActiveOf(logs, MemberOfCard(ev.card)) # NULL

\* A second case of C33: a tap ended with "Error recording sign in." after a store
\* call of its sign_in raised.
C33_WitnessSignIn ==
    /\ ev.op = "tap"
    /\ ev.outcome = "error_sign_in"
    /\ Site("si_get_member", 0) \in ev.fails

\* C34: no step of the system changes a session whose sign-out time is set: such
\* a session stays in asg_logs with its sign-out time, duration and message, and
\* its other columns, as they were.
C34_ClosedSessionNeverModified ==
    [][\A i \in 1..Len(logs) :
          logs[i].sign_out_time # NULL
          => (i <= Len(logs') /\ logs'[i] = logs[i])]_vars

\* C34 witness: a sweep ran, with an inoffice member to look at, on a day later
\* than the one on which a session was closed.
C34_Witness ==
    /\ ev.op = "check"
    /\ ev.swept
    /\ ev.calls > 1
    /\ \E i \in 1..Len(logs) :
          /\ logs[i].sign_out_time # NULL
          /\ logs[i].sign_out_time < day * 1440

\* A second case of C34: a tap of a member was processed after a session of that
\* member had been closed.
C34_WitnessTap ==
    /\ ev.op = "tap"
    /\ ev.outcome \notin {"ignored", "asleep", "invalid", "unknown_card"}
    /\ \E i \in 1..Len(logs) :
          /\ logs[i].user_id = MemberOfCard(ev.card)
          /\ logs[i].sign_out_time # NULL

\* C35: while the system is asleep no reader loop goes on reading: none is
\* running with the flag _continue_reading set, whichever dialog was open when
\* the system went to sleep and was closed afterwards.
C35_NoReaderWhileAsleep ==
    is_sleeping => ~(loops > 0 /\ continue_reading)

\* C36: an evaluation whose sweep returned an error result records the current
\* date as last_auto_signout_date, and an evaluation that finds the current date
\* recorded makes no sweep.
C36_ErrorSweepRecordsDate ==
    [][/\ (ev'.op = "check" /\ ev'.swept /\ ev'.error)
          => last_auto_signout_date' = current_date
       /\ (ev'.op = "check" /\ last_auto_signout_date = current_date)
          => (~ev'.swept /\ sweeps' = sweeps)]_vars

\* C36 witness: the sweep of an evaluation returned an error result after a store
\* call raised, and the date of the evaluation is recorded.
C36_Witness ==
    /\ ev.op = "check"
    /\ ev.swept
    /\ ev.error
    /\ ev.fails # {}
    /\ last_auto_signout_date = current_date

\* C37: an evaluation makes the sweep exactly when, the sleep state applied, the
\* system is awake, the hour is the auto-sign-out hour, the minute is zero and the
\* date of the last sweep is not the current date, whatever the value of the
\* attempted flag when the evaluation starts.
C37_FlagNeverSuppressesSweep ==
    [][ev'.op = "check"
       => (ev'.swept <=> /\ ~is_sleeping'
                         /\ current_hour = AUTO_SIGNOUT_HOUR
                         /\ current_minute = 0
                         /\ last_auto_signout_date # current_date)]_vars

\* C37 witness: an evaluation that started with the attempted flag set made the
\* sweep.
C37_Witness ==
    /\ ev.op = "check"
    /\ ev.attempted
    /\ ev.swept

\* C38: a tap of a registered member with an active session, processed while the
\* system is awake with no store failure, is not answered with a time-window
\* rejection and closes the session, at any time of day.
C38_SignOutAtAnyTime ==
    [][(ProcessedTapStep /\ ActiveOf(logs, MemberOfCard(ev'.card)) # NULL)
       => /\ ev'.outcome \notin {"before_hours", "after_hours"}
          /\ ActiveOf(logs', MemberOfCard(ev'.card)) = NULL]_vars

\* C39: a card tap in the check-hours window, of any card and whichever of its
\* store calls raises, leaves every session and every member record as it was.
C39_CheckHoursTapReadOnly ==
    [][ev'.op = "check_hours_tap" => (members' = members /\ logs' = logs)]_vars

\* C39 witness: the tap of a member with an active session showed the hours, and
\* the session is still open.
C39_Witness ==
    /\ ev.op = "check_hours_tap"
    /\ ev.outcome = "hours"
    /\ ev.member # NULL
    /\ ActiveOf(logs, ev.member) # NULL

\* A second case of C39: the tap of a card bound to nobody.
C39_WitnessUnknown ==
    /\ ev.op = "check_hours_tap"
    /\ ev.outcome = "unknown_card"
    /\ MemberOfCard(ev.card) = NULL

====
